---------------------------- MODULE Spec2Model ----------------------------
(***************************************************************************)
(* Model of the two command-line tools of projeto_variabilidade:           *)
(*   - API.py       the retrieval tool (main loop over experiments and     *)
(*                  variables, one client.retrieve call per pair);         *)
(*   - analysis.py  the analysis tool (file locator, dataset loader,       *)
(*                  variable resolution, anomalies, return levels, main).  *)
(* Each tool is single-threaded; an action is one step of its main or one  *)
(* application of a function to inputs drawn from bounded sets.            *)
(*                                                                         *)
(* Conventions.  A path is a sequence of components; a file name is a      *)
(* sequence of tokens (an experiment name, a variable name, a year, a      *)
(* separator, an extension), so that an f-string is a concatenation and a  *)
(* glob pattern is a token sequence with "*" wildcards.  Years stay        *)
(* integers (str(year) only changes their type).  Physical values are      *)
(* fixed-point integers in hundredths, so that 273.15 is 27315.            *)
(***************************************************************************)
EXTENDS Integers, Sequences, FiniteSets, TLC

\* ------------------------------------------------------------- bounds ----
MaxExperiments == 2     \* longest --experiments list of the retrieval tool
MaxVariables == 2       \* longest --variables list of the retrieval tool
MaxSpan == 1            \* a year range ends at most this far after its start
MaxFiles == 2           \* most files in a folder given to find_file
MaxMtime == 2           \* modification times are 1..MaxMtime
MaxDataVars == 2        \* most data variables in a dataset given to load_series
MaxValues == 5          \* longest input of compute_return_levels
MaxPeriods == 2         \* longest list of return periods
MaxMembers == 2         \* most members of a zip archive
MaxScenarios == 2       \* longest --experiments list of the analysis tool

\* -------------------------------------------------------------- state ----
\* The retrieval tool (API.py, main).
VARIABLES
    api_args,     \* the parsed command line of the retrieval tool
    api_pc,       \* "experiment" | "variable" | "done" | "failed"
    e_idx,        \* position of main's outer loop in args.experiments
    v_idx,        \* position of main's inner loop in args.variables
    target_dir,   \* main's target_dir for the current experiment
    dirs,         \* directories that exist on disk
    written,      \* files the client has written
    calls,        \* client.retrieve calls issued so far, in order
    outcomes,     \* how each of those calls ended: "ok" | "raised"
    printed,      \* "[ok] ..." lines printed so far, in order
    api_error     \* the uncaught exception that ended main, or None

apiVars == <<api_args, api_pc, e_idx, v_idx, target_dir, dirs, written, calls,
             outcomes, printed, api_error>>

\* find_file (analysis.py).
VARIABLES
    ff_fs,        \* the file system find_file looks at
    ff_call,      \* the arguments of the last find_file call, or None
    ff_result     \* what that call returned: a path [dir, name], or None

ffVars == <<ff_fs, ff_call, ff_result>>

\* load_series (analysis.py).
VARIABLES
    ld_ds,        \* the dataset open_dataset_maybe_zip yields for the path
    ld_variable,  \* the requested variable
    ld_keep_attrs, \* whether the installed xarray keeps attrs in a reduction
    ld_result     \* what load_series did: a DataArray or the error it raised

ldVars == <<ld_ds, ld_variable, ld_keep_attrs, ld_result>>

\* compute_return_levels (analysis.py).
VARIABLES
    rl_data,      \* data.values
    rl_periods,   \* the requested return periods
    rl_scipy,     \* whether scipy can be imported
    rl_fit,       \* how genextreme.fit ended: "ok" | "raised" | "not called"
    rl_result     \* the levels returned or the error raised

rlVars == <<rl_data, rl_periods, rl_scipy, rl_fit, rl_result>>

\* open_dataset_maybe_zip (analysis.py).
VARIABLES
    od_path,      \* the file behind the path: its suffix, what it is, its members
    od_pc,        \* "init" | "in_body" | "exited" | "exited_error" | "raised"
    od_tempdirs,  \* temporary directories that exist
    od_open,      \* datasets that are open
    od_log,       \* the operations on resources so far, in order
    od_error      \* the exception that left the context manager, or None

odVars == <<od_path, od_pc, od_tempdirs, od_open, od_log, od_error>>

\* The analysis tool (analysis.py, main).
VARIABLES
    args,            \* the parsed command line of the analysis tool
    env,             \* the folders and files on disk, the xarray installed
    main_pc,         \* "start" | "load_hist" | "scenarios" | "extremes" |
                     \* "plots" | "done" | "failed"
    exp_idx,         \* position of main's loop in args.experiments
    hist_path,       \* main's hist_path
    hist_series,     \* main's hist_series
    scenario_series, \* main's scenario_series: experiment -> series
    results,         \* the annual series, means and anomalies, once computed
    return_levels,   \* main's return_levels: label -> period -> estimate
    plots,           \* the image files written
    main_log,        \* look-ups, loads and warnings so far, in order
    main_error       \* the uncaught exception that ended main, or None

mainVars == <<args, env, main_pc, exp_idx, hist_path, hist_series, scenario_series,
              results, return_levels, plots, main_log, main_error>>

vars == <<apiVars, ffVars, ldVars, rlVars, odVars, mainVars>>

\* What a step of one tool leaves alone: the state of the others.
notApi == <<ffVars, ldVars, rlVars, odVars, mainVars>>
notFF == <<apiVars, ldVars, rlVars, odVars, mainVars>>
notLd == <<apiVars, ffVars, rlVars, odVars, mainVars>>
notRl == <<apiVars, ffVars, ldVars, odVars, mainVars>>
notOd == <<apiVars, ffVars, ldVars, rlVars, mainVars>>
notMain == <<apiVars, ffVars, ldVars, rlVars, odVars>>

\* ------------------------------------------------------------ helpers ----
None == "None"

\* None where the other values are records (a path, the arguments of a call).
NoneRec == [none |-> TRUE]

SeqsUpTo(S, n) == UNION {[1..k -> S] : k \in 1..n}

Last(s) == s[Len(s)]

IsPrefix(s, t) == Len(s) <= Len(t) /\ \A k \in 1..Len(s) : s[k] = t[k]

\* =========================================================================
\*                         API.py : the retrieval tool
\* =========================================================================
DATASET == "projections-cmip6"
DEFAULT_MODEL == "ipsl_cm6a_lr"
DEFAULT_VARIABLES == <<"near_surface_air_temperature", "near_surface_wind_speed">>
API_DEFAULT_EXPERIMENTS == <<"historical", "ssp1_2_6", "ssp5_8_5">>
HIST_RANGE == <<1980, 2014>>
SCENARIO_RANGE == <<2015, 2049>>
BASE_OUTPUT == <<"date">>

\* The years from the lower to the higher bound, whatever their order.
year_list_either_order(start, end) ==
    [k \in 1..((IF end >= start THEN end - start ELSE start - end) + 1) |->
        (IF end >= start THEN start ELSE end) + k - 1]

year_list(start, end) ==
    [k \in 1..(IF end >= start THEN end - start + 1 ELSE 0) |-> start + k - 1]

\* The subdirectory name of output_dir_for_experiment (and of find_file).
Subdir(experiment) == IF experiment = "historical" THEN "historico" ELSE "projecao"

output_dir_always_projecao(base_dir, experiment) == Append(base_dir, "projecao")

\* output_dir_for_experiment: the path it returns; its mkdir is in EnterExperiment.
output_dir_for_experiment(base_dir, experiment) == Append(base_dir, Subdir(experiment))

build_request(variable, experiment, years, model) ==
    [temporal_resolution |-> "daily", experiment |-> experiment,
     variable |-> variable, model |-> model, year |-> years]

\* f"{experiment}_{variable}_{years[0]}-{years[-1]}_{model}.zip"; evaluated
\* only where years is not empty.
TargetName(variable, experiment, years, model) ==
    <<experiment, "_", variable, "_", years[1], "-", Last(years), "_", model, ".zip">>

\* main: years = hist_years if experiment == "historical" else scenario_years
YearsFor(experiment) ==
    IF experiment = "historical"
    THEN year_list(api_args.historical_start, api_args.historical_end)
    ELSE year_list(api_args.scenario_start, api_args.scenario_end)

ApiArgs ==
    [variables : SeqsUpTo({DEFAULT_VARIABLES[k] : k \in 1..Len(DEFAULT_VARIABLES)},
                          MaxVariables),
     experiments : SeqsUpTo({API_DEFAULT_EXPERIMENTS[k] :
                                k \in 1..Len(API_DEFAULT_EXPERIMENTS)},
                            MaxExperiments),
     model : {DEFAULT_MODEL},
     historical_start : {HIST_RANGE[1]},
     historical_end : (HIST_RANGE[1] - 1)..(HIST_RANGE[1] + MaxSpan),
     scenario_start : {SCENARIO_RANGE[1]},
     scenario_end : (SCENARIO_RANGE[1] - 1)..(SCENARIO_RANGE[1] + MaxSpan),
     output_base : {BASE_OUTPUT}]

ApiInit ==
    /\ api_args \in ApiArgs
    /\ api_pc = "experiment"
    /\ e_idx = 1
    /\ v_idx = 1
    /\ target_dir = None
    /\ dirs = {}
    /\ written = {}
    /\ calls = <<>>
    /\ outcomes = <<>>
    /\ printed = <<>>
    /\ api_error = None

\* for experiment in args.experiments: years = ...; target_dir =
\* output_dir_for_experiment(base_dir, experiment)  (mkdir parents=True).
EnterExperiment ==
    /\ api_pc = "experiment"
    /\ e_idx <= Len(api_args.experiments)
    /\ LET dir == output_dir_for_experiment(api_args.output_base,
                                            api_args.experiments[e_idx])
       IN /\ target_dir' = dir
          /\ dirs' = dirs \cup {SubSeq(dir, 1, k) : k \in 1..Len(dir)}
    /\ v_idx' = 1
    /\ api_pc' = "variable"
    /\ UNCHANGED <<api_args, e_idx, written, calls, outcomes, printed, api_error>>
    /\ UNCHANGED notApi

\* Where the two loops of main stand after the current variable is done.
NextPos ==
    IF v_idx < Len(api_args.variables)
    THEN [pc |-> "variable", e |-> e_idx, v |-> v_idx + 1]
    ELSE [pc |-> IF e_idx < Len(api_args.experiments) THEN "experiment" ELSE "done",
          e |-> e_idx + 1, v |-> 1]

\* The arguments of client.retrieve(DATASET, request, str(target_file)).
TheCall ==
    LET experiment == api_args.experiments[e_idx]
        variable == api_args.variables[v_idx]
        years == YearsFor(experiment)
    IN [dataset |-> DATASET,
        request |-> build_request(variable, experiment, years, api_args.model),
        target |-> [dir |-> target_dir,
                    name |-> TargetName(variable, experiment, years, api_args.model)]]

\* print(f"[ok] {experiment} {variable} -> {target_file}")
OkLine(call) ==
    [experiment |-> call.request.experiment, variable |-> call.request.variable,
     target |-> call.target]

\* download_one returns: the client wrote the file, main prints the line.
DownloadOk ==
    /\ api_pc = "variable"
    /\ YearsFor(api_args.experiments[e_idx]) # <<>>
    /\ calls' = Append(calls, TheCall)
    /\ outcomes' = Append(outcomes, "ok")
    /\ written' = written \cup {TheCall.target}
    /\ printed' = Append(printed, OkLine(TheCall))
    /\ api_pc' = NextPos.pc
    /\ e_idx' = NextPos.e
    /\ v_idx' = NextPos.v
    /\ UNCHANGED <<api_args, target_dir, dirs, api_error>>
    /\ UNCHANGED notApi

RetrieveRaisedCaught == [pc |-> NextPos.pc, e |-> NextPos.e, v |-> NextPos.v, error |-> None]

\* Where main stands after client.retrieve raised: neither download_one nor
\* main has a try around it, so the exception ends the run.
RetrieveRaised == [pc |-> "failed", e |-> e_idx, v |-> v_idx, error |-> "RetrieveError"]

\* client.retrieve raises.
DownloadFail ==
    /\ api_pc = "variable"
    /\ YearsFor(api_args.experiments[e_idx]) # <<>>
    /\ calls' = Append(calls, TheCall)
    /\ outcomes' = Append(outcomes, "raised")
    /\ api_pc' = RetrieveRaised.pc
    /\ e_idx' = RetrieveRaised.e
    /\ v_idx' = RetrieveRaised.v
    /\ api_error' = RetrieveRaised.error
    /\ UNCHANGED <<api_args, target_dir, dirs, written, printed>>
    /\ UNCHANGED notApi

\* years[0] on an empty list: IndexError in download_one, before retrieve.
DownloadIndexError ==
    /\ api_pc = "variable"
    /\ YearsFor(api_args.experiments[e_idx]) = <<>>
    /\ api_pc' = "failed"
    /\ api_error' = "IndexError"
    /\ UNCHANGED <<api_args, e_idx, v_idx, target_dir, dirs, written, calls,
                   outcomes, printed>>
    /\ UNCHANGED notApi

ApiNext ==
    \/ EnterExperiment
    \/ DownloadOk
    \/ DownloadFail
    \/ DownloadIndexError

\* ---------------------------------------------------------------- C1 ----
\* The pair that the n-th retrieval call is for, in experiment-major order.
PairAt(n) ==
    LET nv == Len(api_args.variables)
    IN [experiment |-> api_args.experiments[((n - 1) \div nv) + 1],
        variable |-> api_args.variables[((n - 1) % nv) + 1]]

\* What the claim says of the n-th call: the year range and the directory.
CallAsClaimed(n) ==
    LET p == PairAt(n)
        hist == p.experiment = "historical"
    IN /\ calls[n].request.experiment = p.experiment
       /\ calls[n].request.variable = p.variable
       /\ calls[n].request.year =
             IF hist THEN year_list(api_args.historical_start, api_args.historical_end)
             ELSE year_list(api_args.scenario_start, api_args.scenario_end)
       /\ calls[n].target.dir =
             Append(api_args.output_base, IF hist THEN "historico" ELSE "projecao")
       /\ calls[n].target.dir \in dirs

\* C1: the calls issued so far are the first pairs of the requested lists in
\* experiment-major order, each with the year range and the directory of its
\* experiment; a run in which every call succeeded has issued exactly one call
\* per pair and written one file per call; and the directory of a call exists
\* in the state before the call is issued.
C1_OneCallPerPair ==
    /\ [](/\ Len(calls) <= Len(api_args.experiments) * Len(api_args.variables)
          /\ \A n \in 1..Len(calls) : CallAsClaimed(n)
          /\ api_pc = "done" =>
                /\ Len(calls) = Len(api_args.experiments) * Len(api_args.variables)
                /\ written = {calls[n].target : n \in 1..Len(calls)}
                /\ api_error = None)
    /\ [][calls' # calls => Last(calls').target.dir \in dirs]_vars

\* A finished run over a historical and a scenario experiment, two variables.
C1_Witness ==
    /\ api_pc = "done"
    /\ Len(calls) = 4
    /\ calls[1].request.experiment = "historical"
    /\ calls[3].request.experiment # "historical"
    /\ calls[1].request.variable # calls[2].request.variable
    /\ Len(calls[1].request.year) > 1

\* ---------------------------------------------------------------- C2 ----
\* C2: a retrieval call that raised is the last call ever issued, the run has
\* failed, and the success lines printed are exactly those of the calls before
\* it, in order: none for the failed pair, none for a later pair.
C2_FailureHalts ==
    \A n \in 1..Len(outcomes) :
        outcomes[n] = "raised" =>
            /\ n = Len(calls)
            /\ api_pc = "failed"
            /\ api_error = "RetrieveError"
            /\ ~ ENABLED ApiNext
            /\ printed = [k \in 1..(n - 1) |-> OkLine(calls[k])]

\* The third call of a run fails after two successes.
C2_Witness ==
    /\ Len(outcomes) = 3
    /\ outcomes[3] = "raised"
    /\ Len(printed) = 2
    /\ Len(api_args.experiments) * Len(api_args.variables) = 4

\* --------------------------------------------------------------- C12 ----
\* The year range that applies to the experiment is empty.
C12_EmptyRange(experiment) ==
    IF experiment = "historical"
    THEN api_args.historical_start > api_args.historical_end
    ELSE api_args.scenario_start > api_args.scenario_end

C12_Dir(experiment) ==
    Append(api_args.output_base, IF experiment = "historical" THEN "historico" ELSE "projecao")

\* C12: no retrieval call is ever issued for an experiment whose year range
\* is empty and no run with such an experiment finishes; when main has
\* entered such an experiment it stands at its first variable, the
\* subdirectory of the experiment exists, and the only step it can take is
\* the IndexError of download_one; after that step the run has failed with
\* the calls of the earlier experiments only, and takes no further step.
C12_EmptyYearRange ==
    /\ \A n \in 1..Len(calls) : ~ C12_EmptyRange(calls[n].request.experiment)
    /\ api_pc = "done" =>
          \A k \in 1..Len(api_args.experiments) : ~ C12_EmptyRange(api_args.experiments[k])
    /\ (api_pc = "variable" /\ C12_EmptyRange(api_args.experiments[e_idx])) =>
          /\ v_idx = 1
          /\ C12_Dir(api_args.experiments[e_idx]) \in dirs
          /\ ENABLED DownloadIndexError
          /\ ~ ENABLED DownloadOk
          /\ ~ ENABLED DownloadFail
    /\ api_error = "IndexError" =>
          /\ api_pc = "failed"
          /\ C12_EmptyRange(api_args.experiments[e_idx])
          /\ v_idx = 1
          /\ C12_Dir(api_args.experiments[e_idx]) \in dirs
          /\ Len(calls) = (e_idx - 1) * Len(api_args.variables)
          /\ ~ ENABLED ApiNext

\* The second experiment has an empty year range: the calls of the first
\* were issued, the subdirectory of the second exists, the run has failed.
C12_Witness ==
    /\ api_error = "IndexError"
    /\ e_idx = 2
    /\ Len(calls) > 0
    /\ api_args.experiments[1] # api_args.experiments[2]
    /\ C12_Dir(api_args.experiments[2]) \in dirs

\* =========================================================================
\*                       analysis.py : the analysis tool
\* =========================================================================
DEFAULT_VARIABLE == "near_surface_air_temperature"
DEFAULT_EXPERIMENTS == <<"ssp1_2_6", "ssp5_8_5">>
BASE_DIR == <<"date">>
OUTPUT_DIR == <<"img">>

\* ------------------------------------------------------------ find_file --
\* A file system maps each folder path to [exists, listing]: whether the
\* folder exists and, if so, its entries [name, mtime], with distinct names,
\* in the order the directory yields them.
NoFolder == [exists |-> FALSE, listing |-> <<>>]

Folder(listing) == [exists |-> TRUE, listing |-> listing]

\* fnmatch of a name against a pattern, both token sequences; "*" matches any
\* run of tokens, every other token matches itself.
RECURSIVE GlobMatch(_, _)
GlobMatch(pattern, name) ==
    IF pattern = <<>> THEN name = <<>>
    ELSE IF Head(pattern) = "*"
         THEN \/ GlobMatch(Tail(pattern), name)
              \/ name # <<>> /\ GlobMatch(pattern, Tail(name))
         ELSE /\ name # <<>>
              /\ Head(name) = Head(pattern)
              /\ GlobMatch(Tail(pattern), Tail(name))

\* patterns = [f"*{experiment}*{variable}*.nc", f"*{variable}*{experiment}*.nc",
\*             f"*{experiment}*{variable}*.zip", f"*{variable}*{experiment}*.zip"]
Patterns(experiment, variable) ==
    << <<"*", experiment, "*", variable, "*", ".nc">>,
       <<"*", variable, "*", experiment, "*", ".nc">>,
       <<"*", experiment, "*", variable, "*", ".zip">>,
       <<"*", variable, "*", experiment, "*", ".zip">> >>

\* folder.glob(pattern): the entries of the listing that match, in its order.
RECURSIVE Glob(_, _)
Glob(listing, pattern) ==
    IF listing = <<>> THEN <<>>
    ELSE IF GlobMatch(pattern, Head(listing).name)
         THEN <<Head(listing)>> \o Glob(Tail(listing), pattern)
         ELSE Glob(Tail(listing), pattern)

\* for pattern in patterns: candidates.extend(folder.glob(pattern))
RECURSIVE Candidates(_, _)
Candidates(listing, patterns) ==
    IF patterns = <<>> THEN <<>>
    ELSE Glob(listing, Head(patterns)) \o Candidates(listing, Tail(patterns))

\* One step of the stable sort: x goes before the first entry that is
\* strictly older than it.
RECURSIVE InsertByMtimeDesc(_, _)
InsertByMtimeDesc(x, sorted) ==
    IF sorted = <<>> THEN <<x>>
    ELSE IF Head(sorted).mtime < x.mtime
         THEN <<x>> \o sorted
         ELSE <<Head(sorted)>> \o InsertByMtimeDesc(x, Tail(sorted))

NotSorted(cands) == cands

\* candidates.sort(key=lambda p: p.stat().st_mtime, reverse=True): stable,
\* newest first.
RECURSIVE SortNewestFirst(_)
SortNewestFirst(cands) ==
    IF cands = <<>> THEN <<>>
    ELSE InsertByMtimeDesc(Last(cands),
                           SortNewestFirst(SubSeq(cands, 1, Len(cands) - 1)))

find_file(fs, base, experiment, variable) ==
    LET folder == Append(base, Subdir(experiment))
    IN IF ~ fs[folder].exists THEN NoneRec
       ELSE LET candidates == Candidates(fs[folder].listing,
                                         Patterns(experiment, variable))
            IN IF candidates = <<>> THEN NoneRec
               ELSE [dir |-> folder, name |-> SortNewestFirst(candidates)[1].name]

FF_Experiments == {"historical", "ssp1_2_6"}
FF_Variables == {"near_surface_air_temperature", "near_surface_wind_speed"}

\* File names a folder may hold: the two orders of experiment and variable,
\* both extensions, and a name with another extension.
FF_Names ==
    UNION {{<<e, "_", v, ".nc">>, <<v, "_", e, ".zip">>, <<e, "_", v, ".txt">>,
            <<"x", "_", e, "_", v, "_", DEFAULT_MODEL, ".zip">>} :
           e \in FF_Experiments, v \in {DEFAULT_VARIABLE}}
    \cup {<<e, "_", "near_surface_wind_speed", ".nc">> : e \in FF_Experiments}

FF_Entries == [name : FF_Names, mtime : 1..MaxMtime]

Listings(entries, n) ==
    {l \in UNION {[1..k -> entries] : k \in 0..n} :
        \A i, j \in 1..Len(l) : i # j => l[i].name # l[j].name}

FolderPaths(base) == {Append(base, "historico"), Append(base, "projecao")}

FFInit ==
    /\ \E d \in FolderPaths(BASE_DIR) :
         \E l \in {Folder(l) : l \in Listings(FF_Entries, MaxFiles)} \cup {NoFolder} :
            ff_fs = [f \in FolderPaths(BASE_DIR) |-> IF f = d THEN l ELSE NoFolder]
    /\ ff_call = NoneRec
    /\ ff_result = NoneRec

CallFindFile ==
    /\ \E e \in FF_Experiments, v \in FF_Variables :
         /\ ff_call' = [base |-> BASE_DIR, experiment |-> e, variable |-> v]
         /\ ff_result' = find_file(ff_fs, BASE_DIR, e, v)
    /\ UNCHANGED ff_fs
    /\ UNCHANGED notFF

\* ---------------------------------------------------------------- C7 ----
\* The entries of the folder of the last call that match one of the patterns.
FF_Matching ==
    LET folder == Append(ff_call.base,
                         IF ff_call.experiment = "historical" THEN "historico"
                         ELSE "projecao")
        pats == Patterns(ff_call.experiment, ff_call.variable)
        files == ff_fs[folder].listing
    IN IF ~ ff_fs[folder].exists THEN {}
       ELSE {files[i] : i \in {i \in 1..Len(files) :
                \E k \in 1..4 : GlobMatch(pats[k], files[i].name)}}

\* C7: find_file returns None when the experiment's folder does not exist or
\* holds no file matching one of the four patterns; otherwise it returns a
\* matching file of that folder that no matching file is newer than.
C7_MostRecentMatch ==
    ff_call # NoneRec =>
        IF FF_Matching = {} THEN ff_result = NoneRec
        ELSE /\ ff_result # NoneRec
             /\ ff_result.dir = Append(ff_call.base,
                                       IF ff_call.experiment = "historical"
                                       THEN "historico" ELSE "projecao")
             /\ \E m \in FF_Matching :
                   /\ m.name = ff_result.name
                   /\ \A o \in FF_Matching : o.mtime <= m.mtime

\* Two matching files of different age, the older one listed first and
\* matched by an earlier pattern.
C7_Witness ==
    /\ ff_call # NoneRec
    /\ ff_result # NoneRec
    /\ Cardinality(FF_Matching) = 2
    /\ \E m \in FF_Matching :
          /\ m.name = ff_result.name
          /\ m.name[Len(m.name)] = ".zip"
          /\ \E o \in FF_Matching : o.mtime < m.mtime /\ o.name[Len(o.name)] = ".nc"

\* ---------------------------------------------------------- datasets ----
\* Exact arithmetic on rationals <<n, d>>, d > 0, in lowest terms.
RECURSIVE GCD(_, _)
GCD(a, b) == IF b = 0 THEN a ELSE GCD(b, a % b)

Abs(n) == IF n < 0 THEN -n ELSE n

Rat(n, d) ==
    LET g == GCD(Abs(n), d)
    IN <<n \div g, d \div g>>

RatOf(n) == <<n, 1>>

RatAdd(p, q) == Rat(p[1] * q[2] + q[1] * p[2], p[2] * q[2])

RatSub(p, q) == Rat(p[1] * q[2] - q[1] * p[2], p[2] * q[2])

RatDivInt(p, k) == Rat(p[1], p[2] * k)

RECURSIVE RatSum(_)
RatSum(seq) == IF seq = <<>> THEN RatOf(0) ELSE RatAdd(Head(seq), RatSum(Tail(seq)))

\* numpy's mean of a non-empty sequence of finite values.
RatMean(seq) == RatDivInt(RatSum(seq), Len(seq))

\* str.lower() on a string given as its sequence of characters.
UpperCase == <<"A", "B", "C", "D", "E", "F", "G", "H", "I", "J", "K", "L", "M",
               "N", "O", "P", "Q", "R", "S", "T", "U", "V", "W", "X", "Y", "Z">>
LowerCase == <<"a", "b", "c", "d", "e", "f", "g", "h", "i", "j", "k", "l", "m",
               "n", "o", "p", "q", "r", "s", "t", "u", "v", "w", "x", "y", "z">>

LowerChar(c) ==
    IF \E k \in 1..Len(UpperCase) : UpperCase[k] = c
    THEN LowerCase[CHOOSE k \in 1..Len(UpperCase) : UpperCase[k] = c]
    ELSE c

Lower(str) == [k \in 1..Len(str) |-> LowerChar(str[k])]

\* The unit strings of the files, as character sequences.
U_K == <<"K">>
U_degC == <<"d", "e", "g", "C">>
U_flux == <<"k", "g", " ", "m", "-", "2", " ", "s", "-", "1">>
U_none == <<>>

ALIASES(variable) ==
    CASE variable = "near_surface_air_temperature" -> <<"tas", "t2m">>
      [] variable = "near_surface_wind_speed" -> <<"sfcWind", "wind_speed", "wind">>
      [] variable = "total_precipitation" -> <<"tp", "pr", "precipitation">>
      [] OTHER -> <<>>

TEMP_NAMES == {"near_surface_air_temperature", "tas", "t2m"}
WIND_SPEED_NAMES == {"near_surface_wind_speed", "sfcWind", "wind_speed", "wind"}

\* 273.15, in hundredths.
KelvinOffset == 27315

\* A dataset is [data_vars, coords]: its data variables in order, each a
\* DataArray [name, units, dims, samples], and the names of its coordinates.
\* units is the "units" attribute ("" when absent); a sample is [time, cells]
\* with time = <<year, month>> and cells the values over the spatial dims.
DataVarNames(ds) == [k \in 1..Len(ds.data_vars) |-> ds.data_vars[k].name]

\* name in ds: a data variable or a coordinate.
InDs(name, ds) ==
    \/ \E k \in 1..Len(ds.data_vars) : ds.data_vars[k].name = name
    \/ name \in ds.coords

\* ds[name], for a data variable.
DsVar(ds, name) ==
    ds.data_vars[CHOOSE k \in 1..Len(ds.data_vars) : ds.data_vars[k].name = name]

SeqToSet(seq) == {seq[k] : k \in 1..Len(seq)}

guess_lat_lon_dims(da) ==
    (IF "latitude" \in SeqToSet(da.dims) THEN <<"latitude">>
     ELSE IF "lat" \in SeqToSet(da.dims) THEN <<"lat">> ELSE <<>>)
    \o (IF "longitude" \in SeqToSet(da.dims) THEN <<"longitude">>
        ELSE IF "lon" \in SeqToSet(da.dims) THEN <<"lon">> ELSE <<>>)

\* da.mean(dim=dims) if dims else da.  Whether the mean keeps the attributes
\* of da is xarray's keep_attrs default, which depends on the version
\* installed: keep_attrs says which one is in effect.
spatial_mean(da, keep_attrs) ==
    LET dims == guess_lat_lon_dims(da)
    IN IF dims = <<>> THEN da
       ELSE [name |-> da.name,
             units |-> IF keep_attrs THEN da.units ELSE U_none,
             dims |-> SelectSeq(da.dims, LAMBDA d : d \notin SeqToSet(dims)),
             samples |-> [k \in 1..Len(da.samples) |->
                            [time |-> da.samples[k].time,
                             cells |-> <<RatMean(da.samples[k].cells)>>]]]

TimeLess(t, u) == t[1] < u[1] \/ (t[1] = u[1] /\ t[2] < u[2])

RECURSIVE InsertByTime(_, _)
InsertByTime(x, sorted) ==
    IF sorted = <<>> THEN <<x>>
    ELSE IF TimeLess(x.time, Head(sorted).time)
         THEN <<x>> \o sorted
         ELSE <<Head(sorted)>> \o InsertByTime(x, Tail(sorted))

\* da.sortby("time"): stable, ascending.
RECURSIVE SortByTime(_)
SortByTime(samples) ==
    IF samples = <<>> THEN <<>>
    ELSE InsertByTime(Last(samples), SortByTime(SubSeq(samples, 1, Len(samples) - 1)))

sortby_time(da) == [da EXCEPT !.samples = SortByTime(da.samples)]

\* da - 273.15
SubtractOffset(da) ==
    [da EXCEPT !.samples =
        [k \in 1..Len(da.samples) |->
            [time |-> da.samples[k].time,
             cells |-> [c \in 1..Len(da.samples[k].cells) |->
                          RatSub(da.samples[k].cells[c], RatOf(KelvinOffset))]]]]

\* "k" in units or units in {"kelvin", "k"}, units lower-cased.
IsKelvinLike(units) ==
    LET u == Lower(units)
    IN \/ "k" \in SeqToSet(u)
       \/ u \in {<<"k", "e", "l", "v", "i", "n">>, <<"k">>}

ConvertKeepingUnits(da, variable, target_var) ==
    IF (variable \in TEMP_NAMES \/ target_var \in TEMP_NAMES) /\ IsKelvinLike(da.units)
    THEN SubtractOffset(da)
    ELSE da

\* load_series, the conversion of K to degC:
\*   if variable in TEMP_NAMES or target_var in TEMP_NAMES:
\*       units = str(da.attrs.get("units", "")).lower()
\*       if "k" in units or units in {"kelvin", "k"}:
\*           da = da - 273.15; da.attrs["units"] = "degC"
ConvertTemperature(da, variable, target_var) ==
    IF (variable \in TEMP_NAMES \/ target_var \in TEMP_NAMES) /\ IsKelvinLike(da.units)
    THEN [SubtractOffset(da) EXCEPT !.units = U_degC]
    ELSE da

LastAliasInDs(ds, variable) ==
    LET aliases == ALIASES(variable)
        found == {k \in 1..Len(aliases) : InDs(aliases[k], ds)}
    IN IF found = {} THEN variable
       ELSE aliases[CHOOSE k \in found : \A j \in found : j <= k]

\* for alias in ALIASES.get(variable, []): if alias in ds: target_var = alias; break
FirstAliasInDs(ds, variable) ==
    LET aliases == ALIASES(variable)
        found == {k \in 1..Len(aliases) : InDs(aliases[k], ds)}
    IN IF found = {} THEN variable
       ELSE aliases[CHOOSE k \in found : \A j \in found : k <= j]

\* load_series, the resolution of the variable: the name it settles on, or
\* the KeyError it raises.
ResolveVariable(ds, variable) ==
    LET t1 == IF InDs(variable, ds) THEN variable ELSE FirstAliasInDs(ds, variable)
    IN IF InDs(t1, ds) THEN [ok |-> TRUE, target_var |-> t1]
       ELSE IF Len(ds.data_vars) = 1
            THEN [ok |-> TRUE, target_var |-> ds.data_vars[1].name]
            ELSE [ok |-> FALSE, error |-> "KeyError", variable |-> variable,
                  available |-> DataVarNames(ds)]

\* load_series on the dataset that open_dataset_maybe_zip yields.
load_series(ds, variable, keep_attrs) ==
    LET r == ResolveVariable(ds, variable)
    IN IF ~ r.ok THEN r
       ELSE [ok |-> TRUE, target_var |-> r.target_var,
             da |-> sortby_time(ConvertTemperature(
                        spatial_mean(DsVar(ds, r.target_var), keep_attrs),
                        variable, r.target_var))]

\* ------------------------------------------------- load_series, inputs ----
LS_Names == {"near_surface_air_temperature", "tas", "t2m", "sfcWind", "pr"}
LS_Units == {U_K, U_degC, U_flux}
LS_Requests == {"near_surface_air_temperature", "tas", "near_surface_wind_speed",
                "total_precipitation"}

\* Two series: a gridded one, in time order, and a point series, out of order.
LS_Gridded ==
    [dims |-> <<"time", "lat", "lon">>,
     samples |-> << [time |-> <<1980, 1>>, cells |-> <<RatOf(28815), RatOf(28900)>>],
                    [time |-> <<1980, 2>>, cells |-> <<RatOf(29015), RatOf(29015)>>] >>]
LS_Point ==
    [dims |-> <<"time">>,
     samples |-> << [time |-> <<1981, 1>>, cells |-> <<RatOf(500)>>],
                    [time |-> <<1980, 1>>, cells |-> <<RatOf(27315)>>] >>]

LS_DataArrays ==
    {[name |-> n, units |-> u, dims |-> s.dims, samples |-> s.samples] :
        n \in LS_Names, u \in LS_Units, s \in {LS_Gridded, LS_Point}}

LS_Datasets ==
    {[data_vars |-> dv, coords |-> {"time", "lat", "lon"}] :
        dv \in {l \in UNION {[1..k -> LS_DataArrays] : k \in 0..MaxDataVars} :
                   \A i, j \in 1..Len(l) : i # j => l[i].name # l[j].name}}

LdInit ==
    /\ ld_ds \in LS_Datasets
    /\ ld_variable \in LS_Requests
    /\ ld_keep_attrs \in BOOLEAN
    /\ ld_result = NoneRec

LoadSeries ==
    /\ ld_result' = load_series(ld_ds, ld_variable, ld_keep_attrs)
    /\ UNCHANGED <<ld_ds, ld_variable, ld_keep_attrs>>
    /\ UNCHANGED notLd

\* ---------------------------------------------------------------- C5 ----
\* The aliases of the requested variable that are in the file, by position.
C5_AliasesInFile ==
    {k \in 1..Len(ALIASES(ld_variable)) : InDs(ALIASES(ld_variable)[k], ld_ds)}

\* C5: load_series settles on the requested name if it is in the file; else on
\* the first alias, in list order, that is in the file; else on the only data
\* variable of a file that has exactly one; else it raises KeyError listing
\* the data variables and returns no series.  The series returned is that of
\* the name settled on.
C5_ResolutionOrder ==
    ld_result # NoneRec =>
        IF InDs(ld_variable, ld_ds)
        THEN ld_result.ok /\ ld_result.target_var = ld_variable
        ELSE IF C5_AliasesInFile # {}
        THEN /\ ld_result.ok
             /\ \E k \in C5_AliasesInFile :
                   /\ \A j \in C5_AliasesInFile : k <= j
                   /\ ld_result.target_var = ALIASES(ld_variable)[k]
                   /\ ld_result.da.name = ALIASES(ld_variable)[k]
                   /\ {x.time : x \in SeqToSet(ld_result.da.samples)} =
                         {x.time : x \in SeqToSet(DsVar(ld_ds, ALIASES(ld_variable)[k]).samples)}
        ELSE IF Len(ld_ds.data_vars) = 1
        THEN ld_result.ok /\ ld_result.target_var = ld_ds.data_vars[1].name
        ELSE /\ ~ ld_result.ok
             /\ ld_result.error = "KeyError"
             /\ ld_result.available = DataVarNames(ld_ds)
             /\ "da" \notin DOMAIN ld_result

\* The file holds both aliases of the temperature, the second one first, and
\* not the requested name.
C5_Witness ==
    /\ ld_result # NoneRec
    /\ ld_variable = "near_surface_air_temperature"
    /\ Len(ld_ds.data_vars) = 2
    /\ ld_ds.data_vars[1].name = "t2m"
    /\ ld_ds.data_vars[2].name = "tas"
    /\ ld_result.ok
    /\ ld_result.target_var = "tas"

\* ---------------------------------------------------------------- C6 ----
\* The series before the conversion: the spatial mean of the resolved variable.
C6_Raw == spatial_mean(DsVar(ld_ds, ld_result.target_var), ld_keep_attrs)

\* The conversion applies to this load: a temperature name and a unit whose
\* lower-cased text holds a "k".
C6_Fires ==
    /\ ld_result # NoneRec
    /\ ld_result.ok
    /\ ld_variable \in TEMP_NAMES \/ ld_result.target_var \in TEMP_NAMES
    /\ \E k \in 1..Len(C6_Raw.units) : C6_Raw.units[k] \in {"k", "K"}

\* C6: when the conversion fires, the series returned has every value of the
\* raw series less 273.15 and the unit "degC", and the conversion rule applied
\* to the series returned changes nothing.
C6_ConversionOnce ==
    C6_Fires =>
        /\ ld_result.da.units = <<"d", "e", "g", "C">>
        /\ SeqToSet(ld_result.da.samples) =
              {[time |-> x.time,
                cells |-> [c \in 1..Len(x.cells) |->
                              Rat(x.cells[c][1] - 27315 * x.cells[c][2], x.cells[c][2])]] :
                 x \in SeqToSet(C6_Raw.samples)}
        /\ ConvertTemperature(ld_result.da, ld_variable, ld_result.target_var)
              = ld_result.da

\* A Kelvin series, requested by the canonical name and found under an alias.
C6_Witness ==
    /\ C6_Fires
    /\ ld_variable = "near_surface_air_temperature"
    /\ ld_result.target_var = "tas"
    /\ C6_Raw.units = <<"K">>
    /\ \E x \in SeqToSet(ld_result.da.samples) : x.cells = <<RatOf(0)>>

\* --------------------------------------------------------------- C11 ----
\* The unit denotes Kelvin: lower-cased it is "k" or "kelvin".
C11_DenotesKelvin(units) ==
    Lower(units) \in {<<"k">>, <<"k", "e", "l", "v", "i", "n">>}

\* C11: when the variable load_series resolved is not a temperature name, or
\* the unit of its spatially reduced series does not denote Kelvin, the
\* series returned has the values of the reduced series and its unit.
C11_AsStated ==
    (/\ ld_result # NoneRec
     /\ ld_result.ok
     /\ \/ ld_result.target_var \notin TEMP_NAMES
        \/ ~ C11_DenotesKelvin(C6_Raw.units))
    => /\ SeqToSet(ld_result.da.samples) = SeqToSet(C6_Raw.samples)
       /\ ld_result.da.units = C6_Raw.units

\* ------------------------------------------------ compute_return_levels --
\* A value of data.values: a finite number, NaN or an infinity.
Finite(x) == [kind |-> "finite", x |-> x]
NaN == [kind |-> "nan"]
Inf == [kind |-> "inf"]

\* The fewest finite values compute_return_levels accepts.
MinValues == 5

AllValues(values) == values

\* values[np.isfinite(values)]
FiniteValues(values) == SelectSeq(values, LAMBDA v : v.kind = "finite")

\* genextreme.ppf(1 - 1 / p, shape, loc=loc, scale=scale) for p # 0: the
\* quantile of the fitted distribution, which the model does not evaluate.
Ppf(p, fitted) == [q |-> Rat(p - 1, p), of |-> fitted]

\* compute_return_levels, with the outcome of genextreme.fit given.
compute_return_levels(values, periods, scipy, fit_ok) ==
    IF ~ scipy THEN [ok |-> FALSE, error |-> "ImportError"]
    ELSE LET finite == FiniteValues(values)
         IN IF Len(finite) < MinValues
            THEN [ok |-> FALSE, error |-> "ValueError: serie muito curta"]
            ELSE IF ~ fit_ok THEN [ok |-> FALSE, error |-> "FitError"]
            ELSE IF \E k \in 1..Len(periods) : periods[k] = 0
                 THEN [ok |-> FALSE, error |-> "ZeroDivisionError"]
                 ELSE [ok |-> TRUE,
                       levels |-> [p \in SeqToSet(periods) |-> Ppf(p, finite)]]

RL_Values == {Finite(0), NaN, Inf}
RL_Periods == {0, 10, 20}

RlInit ==
    /\ rl_data \in UNION {[1..k -> RL_Values] : k \in 0..MaxValues}
    /\ rl_periods \in SeqsUpTo(RL_Periods, MaxPeriods)
    /\ rl_scipy \in BOOLEAN
    /\ rl_fit = "not called"
    /\ rl_result = NoneRec

\* Whether a call gets as far as genextreme.fit.
ReachesFit == rl_scipy /\ Len(FiniteValues(rl_data)) >= MinValues

\* A call in which genextreme.fit, if it is reached, returns.
ReturnLevels ==
    /\ rl_result' = compute_return_levels(rl_data, rl_periods, rl_scipy, TRUE)
    /\ rl_fit' = IF ReachesFit THEN "ok" ELSE "not called"
    /\ UNCHANGED <<rl_data, rl_periods, rl_scipy>>
    /\ UNCHANGED notRl

\* A call in which genextreme.fit raises.
ReturnLevelsFitRaises ==
    /\ ReachesFit
    /\ rl_result' = compute_return_levels(rl_data, rl_periods, rl_scipy, FALSE)
    /\ rl_fit' = "raised"
    /\ UNCHANGED <<rl_data, rl_periods, rl_scipy>>
    /\ UNCHANGED notRl

\* ---------------------------------------------------------------- C8 ----
C8_FiniteCount == Cardinality({k \in 1..Len(rl_data) : rl_data[k].kind = "finite"})

\* C8 as stated: "series too short" for fewer than 5 finite values, and
\* otherwise one estimate for each requested period; here only for the calls
\* in which scipy was imported and genextreme.fit did not raise.
C8_AsStated ==
    (rl_result # NoneRec /\ rl_scipy /\ rl_fit # "raised") =>
        IF C8_FiniteCount < 5
        THEN ~ rl_result.ok /\ rl_result.error = "ValueError: serie muito curta"
        ELSE rl_result.ok /\ DOMAIN rl_result.levels = SeqToSet(rl_periods)

\* C8, amended: with scipy importable, fewer than 5 finite values raise
\* "series too short"; 5 or more give one estimate for each requested period,
\* keyed by it, when the fit returns and no period is 0, and another error and
\* no estimate when the fit raises or a period is 0.
C8_ReturnLevels ==
    (rl_result # NoneRec /\ rl_scipy) =>
        IF C8_FiniteCount < 5
        THEN ~ rl_result.ok /\ rl_result.error = "ValueError: serie muito curta"
        ELSE IF rl_fit = "ok" /\ 0 \notin SeqToSet(rl_periods)
        THEN /\ rl_result.ok
             /\ DOMAIN rl_result.levels = SeqToSet(rl_periods)
             /\ \A p \in SeqToSet(rl_periods) : rl_result.levels[p].q = Rat(p - 1, p)
        ELSE /\ ~ rl_result.ok
             /\ rl_result.error \in {"FitError", "ZeroDivisionError"}
             /\ "levels" \notin DOMAIN rl_result

\* Five values of which one is not finite are too short; five finite values
\* and two periods give two estimates.
C8_Witness ==
    /\ rl_result # NoneRec
    /\ rl_scipy
    /\ Len(rl_data) = 5
    /\ \/ C8_FiniteCount = 4 /\ ~ rl_result.ok
       \/ C8_FiniteCount = 5 /\ rl_result.ok /\ Cardinality(DOMAIN rl_result.levels) = 2

\* ----------------------------------------------- open_dataset_maybe_zip --
\* The suffixes of a path, as character sequences.
S_zip == <<".", "z", "i", "p">>
S_ZIP == <<".", "Z", "I", "P">>
S_nc == <<".", "n", "c">>

\* m.endswith(".nc"), a member name being a sequence of tokens.
EndsWithNc(name) == name # <<>> /\ Last(name) = ".nc"

\* members = [m for m in zf.namelist() if m.endswith(".nc")]
NcMembers(members) == SelectSeq(members, LAMBDA m : EndsWithNc(m.name))

\* path.suffix.lower() == ".zip"
IsZipPath(path) == Lower(path.suffix) = S_zip

KeepTempDir(tempdirs, td) == tempdirs

\* TemporaryDirectory.__exit__: the directory and what is in it are removed.
CleanupTempDir(tempdirs, td) == tempdirs \ {td}

\* ds.close()
CloseDataset(open, ds) == open \ {ds}

\* The directory tempfile.TemporaryDirectory() creates.
TheTempDir == "td"

OD_Members ==
    {[name |-> <<"a", ".nc">>, valid |-> TRUE],
     [name |-> <<"b", ".txt">>, valid |-> TRUE],
     [name |-> <<"c", ".nc">>, valid |-> FALSE]}

\* The file is a zip archive, a NetCDF file, neither, or not there; members
\* are those of the archive; valid says whether xr.open_dataset can read it.
OD_Paths ==
    [suffix : {S_zip, S_ZIP, S_nc},
     kind : {"zip", "nc", "garbage", "missing"},
     members : UNION {[1..k -> OD_Members] : k \in 0..MaxMembers}]

OdInit ==
    /\ od_path \in OD_Paths
    /\ od_pc = "init"
    /\ od_tempdirs = {}
    /\ od_open = {}
    /\ od_log = <<>>
    /\ od_error = None

\* What entering the context manager does until it yields or raises, a zip
\* path: with TemporaryDirectory() as td: with ZipFile(path) as zf: ...
EnterZip ==
    LET made == od_tempdirs \cup {TheTempDir}
        nc == NcMembers(od_path.members)
    IN IF od_path.kind # "zip"
       THEN \* zipfile.ZipFile(path) raises: td is removed on the way out.
            [pc |-> "raised",
             error |-> IF od_path.kind = "missing" THEN "FileNotFoundError"
                       ELSE "BadZipFile",
             tempdirs |-> CleanupTempDir(made, TheTempDir), open |-> od_open,
             log |-> <<"mkdtemp", "rmtree">>]
       ELSE IF nc = <<>>
       THEN [pc |-> "raised", error |-> "FileNotFoundError",
             tempdirs |-> CleanupTempDir(made, TheTempDir), open |-> od_open,
             log |-> <<"mkdtemp", "zip_open", "zip_close", "rmtree">>]
       ELSE IF ~ nc[1].valid
       THEN \* xr.open_dataset(nc_path) raises.
            [pc |-> "raised", error |-> "OpenError",
             tempdirs |-> CleanupTempDir(made, TheTempDir), open |-> od_open,
             log |-> <<"mkdtemp", "zip_open", "extract", "zip_close", "rmtree">>]
       ELSE [pc |-> "in_body", error |-> None,
             tempdirs |-> made, open |-> od_open \cup {<<TheTempDir, nc[1].name>>},
             log |-> <<"mkdtemp", "zip_open", "extract", "zip_close", "open_dataset">>]

\* The same for any other path: ds = xr.open_dataset(path).
EnterPlain ==
    IF od_path.kind = "nc"
    THEN [pc |-> "in_body", error |-> None, tempdirs |-> od_tempdirs,
          open |-> od_open \cup {<<"path">>}, log |-> <<"open_dataset">>]
    ELSE [pc |-> "raised",
          error |-> IF od_path.kind = "missing" THEN "FileNotFoundError" ELSE "OpenError",
          tempdirs |-> od_tempdirs, open |-> od_open, log |-> <<>>]

\* with open_dataset_maybe_zip(path) as ds: the code up to the yield.
OdEnter ==
    /\ od_pc = "init"
    /\ LET r == IF IsZipPath(od_path) THEN EnterZip ELSE EnterPlain
       IN /\ od_pc' = r.pc
          /\ od_error' = r.error
          /\ od_tempdirs' = r.tempdirs
          /\ od_open' = r.open
          /\ od_log' = od_log \o r.log
    /\ UNCHANGED od_path
    /\ UNCHANGED notOd

\* Leaving the with block: finally: ds.close(), then, for a zip path, the
\* exit of TemporaryDirectory.
ExitResources ==
    [open |-> CloseDataset(od_open, CHOOSE ds \in od_open : TRUE),
     tempdirs |-> IF IsZipPath(od_path) THEN CleanupTempDir(od_tempdirs, TheTempDir)
                  ELSE od_tempdirs,
     log |-> <<"close">> \o (IF IsZipPath(od_path) THEN <<"rmtree">> ELSE <<>>)]

\* The body of the with block completes.
OdBodyReturns ==
    /\ od_pc = "in_body"
    /\ od_pc' = "exited"
    /\ od_open' = ExitResources.open
    /\ od_tempdirs' = ExitResources.tempdirs
    /\ od_log' = od_log \o ExitResources.log
    /\ UNCHANGED <<od_path, od_error>>
    /\ UNCHANGED notOd

\* The body of the with block raises: the generator is resumed with the
\* exception at the yield, the finally clause runs, the exception goes on.
OdBodyRaises ==
    /\ od_pc = "in_body"
    /\ od_pc' = "exited_error"
    /\ od_error' = "BodyError"
    /\ od_open' = ExitResources.open
    /\ od_tempdirs' = ExitResources.tempdirs
    /\ od_log' = od_log \o ExitResources.log
    /\ UNCHANGED od_path
    /\ UNCHANGED notOd

\* --------------------------------------------------------------- C10 ----
\* C10: once the scoped access has ended, normally or by an error of the
\* body, no dataset is open and no temporary directory is left, the last
\* operation was the close or the removal, and an error of the body is the
\* error the caller sees; a zip archive with no .nc member makes the loader
\* raise FileNotFoundError with no dataset open and no temporary directory
\* left; and so does every other failure to enter.
C10_Released ==
    /\ od_pc \in {"exited", "exited_error"} =>
          /\ od_open = {}
          /\ od_tempdirs = {}
          /\ od_log[Len(od_log)] \in {"close", "rmtree"}
          /\ (od_pc = "exited_error") = (od_error = "BodyError")
    /\ (/\ od_pc # "init"
        /\ Lower(od_path.suffix) = <<".", "z", "i", "p">>
        /\ od_path.kind = "zip"
        /\ \A k \in 1..Len(od_path.members) :
              Last(od_path.members[k].name) # ".nc") =>
          /\ od_pc = "raised"
          /\ od_error = "FileNotFoundError"
          /\ od_open = {}
          /\ od_tempdirs = {}
    /\ od_pc = "raised" => od_open = {} /\ od_tempdirs = {}

\* The body raised while a dataset extracted from an upper-case .ZIP path was
\* open in a temporary directory, and both are gone.
C10_Witness ==
    /\ od_pc = "exited_error"
    /\ od_path.suffix = <<".", "Z", "I", "P">>
    /\ Len(od_path.members) = 2
    /\ od_log = <<"mkdtemp", "zip_open", "extract", "zip_close", "open_dataset",
                  "close", "rmtree">>
    /\ od_tempdirs = {}
    /\ od_open = {}

\* ----------------------------------------------------------------- main --
\* AGG_METHODS.get(variable, "mean")
get_agg_method(variable) ==
    IF variable \in {"total_precipitation", "tp", "pr", "precipitation"}
    THEN "sum" ELSE "mean"

\* The years a series has samples in.  resample(time="YE") gives one entry
\* for every year from the first to the last; the series of the model have
\* no year without a sample, so these are the same years.
Years(da) == {da.samples[k].time[1] : k \in 1..Len(da.samples)}

\* The values of a spatially reduced series that fall in year y.
ValuesInYear(da, y) ==
    LET inYear == SelectSeq(da.samples, LAMBDA x : x.time[1] = y)
    IN [k \in 1..Len(inYear) |-> inYear[k].cells[1]]

annual_mean(da) == [y \in Years(da) |-> RatMean(ValuesInYear(da, y))]

annual_sum(da) == [y \in Years(da) |-> RatSum(ValuesInYear(da, y))]

annual_aggregate(da, method) ==
    IF method = "sum" THEN annual_sum(da) ELSE annual_mean(da)

RECURSIVE SumOver(_, _)
SumOver(arr, S) ==
    IF S = {} THEN RatOf(0)
    ELSE LET y == CHOOSE y \in S : TRUE
         IN RatAdd(arr[y], SumOver(arr, S \ {y}))

\* float(arr.mean().values)
ArrayMean(arr) == RatDivInt(SumOver(arr, DOMAIN arr), Cardinality(DOMAIN arr))

\* The scenario less the historical value of the same year, where there is one.
AnomalyYearByYear(arr, hist_mean_scalar) ==
    LET hist == annual_aggregate(hist_series, get_agg_method(args.variable))
    IN [y \in DOMAIN arr |->
          RatSub(arr[y], IF y \in DOMAIN hist THEN hist[y] ELSE hist_mean_scalar)]

\* arr - hist_mean_scalar
AnnualAnomaly(arr, hist_mean_scalar) ==
    [y \in DOMAIN arr |-> RatSub(arr[y], hist_mean_scalar)]

WIND_U_ALIASES == <<"uas", "u10", "eastward_wind", "eastward_near_surface_wind">>
WIND_V_ALIASES == <<"vas", "v10", "northward_wind", "northward_near_surface_wind">>

\* load_wind_direction: None unless the file holds both wind components.
load_wind_direction(ds) ==
    IF /\ \E k \in 1..Len(WIND_U_ALIASES) : InDs(WIND_U_ALIASES[k], ds)
       /\ \E k \in 1..Len(WIND_V_ALIASES) : InDs(WIND_V_ALIASES[k], ds)
    THEN "direction" ELSE None

\* annual_max is called at lines 434 and 437 and defined nowhere in the
\* repository: the call raises NameError.
annual_max(series) == [raises |-> "NameError"]

\* The file behind a path, opened and given to load_series; zip archives are
\* the subject of the open_dataset_maybe_zip section.
OpenAndLoad(path, variable) ==
    IF env.files[path].kind = "missing"
    THEN [ok |-> FALSE, error |-> "FileNotFoundError: open"]
    ELSE load_series(env.files[path].ds, variable, env.keep_attrs)

\* scenario_map.get(experiment) or find_file(args.data_dir, experiment, args.variable)
ScenarioPath(experiment) ==
    IF experiment \in DOMAIN args.scenario_file THEN args.scenario_file[experiment]
    ELSE find_file(env.fs, args.data_dir, experiment, args.variable)

Event(op, experiment) == [op |-> op, experiment |-> experiment]

\* ---------------------------------------------------------- main, inputs --
MainVariables ==
    {"near_surface_air_temperature", "near_surface_wind_speed", "total_precipitation"}

MainUnits(variable) ==
    CASE variable = "near_surface_air_temperature" -> U_K
      [] variable = "near_surface_wind_speed" -> <<"m", " ", "s", "-", "1">>
      [] OTHER -> U_flux

\* Series, in hundredths: two years on a grid with unequal annual means, two
\* equal years, five years, and the five years of a scenario.
SerVarying ==
    [dims |-> <<"time", "lat", "lon">>,
     samples |-> << [time |-> <<1980, 1>>, cells |-> <<RatOf(28715), RatOf(28915)>>],
                    [time |-> <<1980, 7>>, cells |-> <<RatOf(29015), RatOf(29015)>>],
                    [time |-> <<1981, 1>>, cells |-> <<RatOf(29115), RatOf(29115)>>] >>]
SerConstant ==
    [dims |-> <<"time">>,
     samples |-> << [time |-> <<1980, 1>>, cells |-> <<RatOf(28815)>>],
                    [time |-> <<1981, 1>>, cells |-> <<RatOf(28815)>>] >>]
SerLong ==
    [dims |-> <<"time">>,
     samples |-> [k \in 1..MinValues |->
                    [time |-> <<1979 + k, 1>>, cells |-> <<RatOf(100 * k)>>]]]
SerScenario ==
    [dims |-> <<"time">>,
     samples |-> [k \in 1..MinValues |->
                    [time |-> <<2014 + k, 1>>, cells |-> <<RatOf(150 * k)>>]]]

MainSeries == {SerVarying, SerConstant, SerLong}

\* A NetCDF file whose only data variable is the first alias of the variable.
NcFile(variable, series) ==
    [kind |-> "nc",
     ds |-> [data_vars |-> << [name |-> ALIASES(variable)[1],
                               units |-> MainUnits(variable),
                               dims |-> series.dims,
                               samples |-> series.samples] >>,
             coords |-> {"time", "lat", "lon"}]]

MissingFile == [kind |-> "missing", ds |-> NoneRec]

HistName(variable) == <<"historical", "_", variable, ".nc">>
ScenName(experiment, variable) == <<experiment, "_", variable, ".nc">>
GivenHist == [dir |-> <<"given">>, name |-> <<"h", ".nc">>]
GivenScen == [dir |-> <<"given">>, name |-> <<"s", ".nc">>]
HistFolder == Append(BASE_DIR, "historico")
ScenFolder == Append(BASE_DIR, "projecao")

MainInit ==
    /\ \E variable \in MainVariables,
          exps \in SeqsUpTo(SeqToSet(DEFAULT_EXPERIMENTS), MaxScenarios),
          hf \in {"none", "present", "missing"},
          sf \in {"none", "present", "missing"},
          hfolder \in {"no folder", "file"},
          pfolder \in {"no folder", "first", "both"},
          hser \in MainSeries,
          same \in BOOLEAN,
          keep \in BOOLEAN :
         LET first == DEFAULT_EXPERIMENTS[1]
             second == DEFAULT_EXPERIMENTS[2]
             scen == IF same THEN hser ELSE SerScenario
         IN /\ args = [variable |-> variable,
                       experiments |-> exps,
                       historical_file |-> IF hf = "none" THEN NoneRec ELSE GivenHist,
                       scenario_file |-> IF sf = "none" THEN [e \in {} |-> GivenScen]
                                         ELSE [e \in {first} |-> GivenScen],
                       data_dir |-> BASE_DIR,
                       output_dir |-> OUTPUT_DIR,
                       return_periods |-> <<10, 20, 50>>]
            /\ env = [fs |-> [f \in FolderPaths(BASE_DIR) |->
                               IF f = HistFolder
                               THEN IF hfolder = "no folder" THEN NoFolder
                                    ELSE Folder(<<[name |-> HistName(variable), mtime |-> 1]>>)
                               ELSE IF pfolder = "no folder" THEN NoFolder
                                    ELSE IF pfolder = "first"
                                    THEN Folder(<<[name |-> ScenName(first, variable),
                                                   mtime |-> 1]>>)
                                    ELSE Folder(<<[name |-> ScenName(second, variable),
                                                   mtime |-> 1],
                                                  [name |-> ScenName(first, variable),
                                                   mtime |-> 2]>>)],
                      files |-> [p \in {GivenHist, GivenScen,
                                        [dir |-> HistFolder, name |-> HistName(variable)],
                                        [dir |-> ScenFolder, name |-> ScenName(first, variable)],
                                        [dir |-> ScenFolder, name |-> ScenName(second, variable)]} |->
                                   IF p = GivenHist
                                   THEN IF hf = "missing" THEN MissingFile
                                        ELSE NcFile(variable, hser)
                                   ELSE IF p = GivenScen
                                   THEN IF sf = "missing" THEN MissingFile
                                        ELSE NcFile(variable, scen)
                                   ELSE IF p.dir = HistFolder THEN NcFile(variable, hser)
                                   ELSE IF p.name = ScenName(first, variable)
                                   THEN NcFile(variable, scen)
                                   ELSE NcFile(variable, SerScenario)],
                      keep_attrs |-> keep]
    /\ main_pc = "start"
    /\ exp_idx = 0
    /\ hist_path = NoneRec
    /\ hist_series = NoneRec
    /\ scenario_series = [e \in {} |-> NoneRec]
    /\ results = NoneRec
    /\ return_levels = [l \in {} |-> NoneRec]
    /\ plots = {}
    /\ main_log = <<>>
    /\ main_error = None

\* --------------------------------------------------------- main, steps --
MainFails(error) ==
    /\ main_pc' = "failed"
    /\ main_error' = error

\* hist_path = args.historical_file or find_file(...); if hist_path is None: raise
M_LocateHistorical ==
    /\ main_pc = "start"
    /\ LET given == args.historical_file # NoneRec
           p == IF given THEN args.historical_file
                ELSE find_file(env.fs, args.data_dir, "historical", args.variable)
       IN /\ main_log' = IF given THEN main_log
                         ELSE Append(main_log, Event("find_file", "historical"))
          /\ IF p = NoneRec
             THEN /\ MainFails("FileNotFoundError: historico")
                  /\ UNCHANGED hist_path
             ELSE /\ hist_path' = p
                  /\ main_pc' = "load_hist"
                  /\ UNCHANGED main_error
    /\ UNCHANGED <<args, env, exp_idx, hist_series, scenario_series, results,
                   return_levels, plots>>
    /\ UNCHANGED notMain

\* hist_series = load_series(hist_path, args.variable), and the historical
\* aggregates, which need nothing else.
M_LoadHistorical ==
    /\ main_pc = "load_hist"
    /\ LET r == OpenAndLoad(hist_path, args.variable)
       IN /\ main_log' = Append(main_log, Event("load_series", "historical"))
          /\ IF r.ok
             THEN /\ hist_series' = r.da
                  /\ main_pc' = "scenarios"
                  /\ exp_idx' = 1
                  /\ UNCHANGED main_error
             ELSE /\ MainFails(r.error)
                  /\ UNCHANGED <<hist_series, exp_idx>>
    /\ UNCHANGED <<args, env, hist_path, scenario_series, results, return_levels, plots>>
    /\ UNCHANGED notMain

\* The missing scenario ends the run.
MissingScenarioFatal(experiment) ==
    /\ main_log' = Append(main_log, Event("find_file", experiment))
    /\ MainFails("FileNotFoundError: cenario")
    /\ UNCHANGED exp_idx

\* if path is None: print("[aviso] Arquivo não encontrado para ..."); continue
MissingScenario(experiment) ==
    /\ main_log' = main_log \o <<Event("find_file", experiment),
                                 Event("warn_missing", experiment)>>
    /\ exp_idx' = exp_idx + 1
    /\ UNCHANGED <<main_pc, main_error>>

\* One turn of the loop over args.experiments, for an experiment with no file.
M_ScenarioMissing ==
    /\ main_pc = "scenarios"
    /\ exp_idx <= Len(args.experiments)
    /\ ScenarioPath(args.experiments[exp_idx]) = NoneRec
    /\ MissingScenario(args.experiments[exp_idx])
    /\ UNCHANGED <<args, env, hist_path, hist_series, scenario_series, results,
                   return_levels, plots>>
    /\ UNCHANGED notMain

\* One turn of the loop, for an experiment with a path:
\* scenario_series[experiment] = load_series(path, args.variable)
M_ScenarioLoad ==
    /\ main_pc = "scenarios"
    /\ exp_idx <= Len(args.experiments)
    /\ LET experiment == args.experiments[exp_idx]
           path == ScenarioPath(experiment)
           looked == IF experiment \in DOMAIN args.scenario_file THEN <<>>
                     ELSE <<Event("find_file", experiment)>>
       IN /\ path # NoneRec
          /\ main_log' = main_log \o looked \o <<Event("load_series", experiment)>>
          /\ LET r == OpenAndLoad(path, args.variable)
             IN IF r.ok
                THEN /\ scenario_series' =
                            [e \in DOMAIN scenario_series \cup {experiment} |->
                                IF e = experiment THEN r.da ELSE scenario_series[e]]
                     /\ exp_idx' = exp_idx + 1
                     /\ UNCHANGED <<main_pc, main_error>>
                ELSE /\ MainFails(r.error)
                     /\ UNCHANGED <<scenario_series, exp_idx>>
    /\ UNCHANGED <<args, env, hist_path, hist_series, results, return_levels, plots>>
    /\ UNCHANGED notMain

\* After the loop: if not scenario_series: raise FileNotFoundError; then the
\* annual series, their means and the annual anomalies.
M_Aggregate ==
    /\ main_pc = "scenarios"
    /\ exp_idx > Len(args.experiments)
    /\ IF DOMAIN scenario_series = {}
       THEN /\ MainFails("FileNotFoundError: cenario")
            /\ UNCHANGED results
       ELSE LET agg_method == get_agg_method(args.variable)
                hist_annual == annual_aggregate(hist_series, agg_method)
                scenario_annual == [k \in DOMAIN scenario_series |->
                                      annual_aggregate(scenario_series[k], agg_method)]
                annual_series == [n \in {"historical"} \cup DOMAIN scenario_annual |->
                                    IF n = "historical" THEN hist_annual
                                    ELSE scenario_annual[n]]
                annual_means == [n \in DOMAIN annual_series |-> ArrayMean(annual_series[n])]
                hist_mean_scalar == annual_means["historical"]
            IN /\ results' = [scenario_annual |-> scenario_annual,
                              annual_series |-> annual_series,
                              annual_means |-> annual_means,
                              annual_anoms |-> [n \in DOMAIN scenario_annual |->
                                   AnnualAnomaly(scenario_annual[n], hist_mean_scalar)],
                              wind_dirs |-> [n \in {} |-> None]]
               /\ main_pc' = "extremes"
               /\ UNCHANGED main_error
    /\ UNCHANGED <<args, env, exp_idx, hist_path, hist_series, scenario_series,
                   return_levels, plots, main_log>>
    /\ UNCHANGED notMain

\* The two blocks under "if args.variable in WIND_SPEED_NAMES": the wind
\* directions, and the return levels.  The first statement of the try block
\* calls annual_max, which raises NameError; except Exception catches it and
\* prints a warning, and return_levels stays as created, empty.
M_Extremes ==
    /\ main_pc = "extremes"
    /\ IF args.variable \in WIND_SPEED_NAMES
       THEN /\ results' = [results EXCEPT !.wind_dirs =
                   [n \in {"historical"} \cup DOMAIN scenario_series |->
                       LET path == IF n = "historical" THEN hist_path ELSE ScenarioPath(n)
                       IN IF path = NoneRec THEN None
                          ELSE load_wind_direction(env.files[path].ds)]]
            /\ annual_max(hist_series).raises = "NameError"
            /\ main_log' = Append(main_log, Event("warn_return_levels", "historical"))
            /\ UNCHANGED return_levels
       ELSE UNCHANGED <<results, main_log, return_levels>>
    /\ main_pc' = "plots"
    /\ UNCHANGED <<args, env, exp_idx, hist_path, hist_series, scenario_series,
                   plots, main_error>>
    /\ UNCHANGED notMain

\* The plots: four for every variable; for a wind variable plot_wind_rose
\* and plot_return_levels, each of which prints a warning and writes nothing
\* when it is given nothing to draw.
M_Plots ==
    /\ main_pc = "plots"
    /\ LET wind == args.variable \in WIND_SPEED_NAMES
           rose == wind /\ \E n \in DOMAIN results.wind_dirs : results.wind_dirs[n] # None
           levels == wind /\ DOMAIN return_levels # {}
       IN /\ plots' = {"climatologia_mensal", "serie_anual", "anomalias_mensais",
                       "anomalias_anuais"}
                      \cup (IF rose THEN {"rosa_dos_ventos"} ELSE {})
                      \cup (IF levels THEN {"niveis_retorno"} ELSE {})
          /\ main_log' = main_log
                \o (IF wind /\ ~ rose THEN <<Event("warn_wind_rose", "historical")>> ELSE <<>>)
                \o (IF wind /\ ~ levels THEN <<Event("warn_no_levels", "historical")>> ELSE <<>>)
    /\ main_pc' = "done"
    /\ UNCHANGED <<args, env, exp_idx, hist_path, hist_series, scenario_series,
                   results, return_levels, main_error>>
    /\ UNCHANGED notMain

MainNext ==
    \/ M_LocateHistorical
    \/ M_LoadHistorical
    \/ M_ScenarioMissing
    \/ M_ScenarioLoad
    \/ M_Aggregate
    \/ M_Extremes
    \/ M_Plots

\* ------------------------------------------------------ main, claim C3 --
FileNotFound ==
    {"FileNotFoundError: historico", "FileNotFoundError: cenario", "FileNotFoundError: open"}

\* Looking in the folder of the experiment finds a file.
C3_InFolder(experiment) ==
    LET folder == env.fs[Append(args.data_dir,
                                IF experiment = "historical" THEN "historico" ELSE "projecao")]
    IN /\ folder.exists
       /\ \E k \in 1..Len(folder.listing), pat \in SeqToSet(Patterns(experiment, args.variable)) :
             GlobMatch(pat, folder.listing[k].name)

\* The historical file is missing: the path given does not exist, or none
\* is given and the folder holds no match.
C3_HistMissing ==
    IF args.historical_file # NoneRec
    THEN env.files[args.historical_file].kind = "missing"
    ELSE ~ C3_InFolder("historical")

\* No path is given for the experiment and the folder holds no match.
C3_NotFound(experiment) ==
    experiment \notin DOMAIN args.scenario_file /\ ~ C3_InFolder(experiment)

\* A path is given for the experiment and there is no such file.
C3_GivenMissing(experiment) ==
    /\ experiment \in DOMAIN args.scenario_file
    /\ env.files[args.scenario_file[experiment]].kind = "missing"

C3_ScenarioTouched ==
    \E k \in 1..Len(main_log) : main_log[k].experiment # "historical"

C3_Warned(experiment) ==
    \E k \in 1..Len(main_log) : main_log[k] = Event("warn_missing", experiment)

C3_HistoricalFatal ==
    C3_HistMissing =>
        /\ ~ C3_ScenarioTouched
        /\ DOMAIN scenario_series = {}
        /\ main_pc \in {"start", "load_hist", "failed"}
        /\ main_pc = "failed" => main_error \in FileNotFound

\* C3 as the spec states it: once the historical series is loaded, a
\* scenario file that is missing never ends the run in file-not-found.
C3_AsStated ==
    (/\ hist_series # NoneRec
     /\ \E k \in 1..Len(args.experiments) :
           C3_NotFound(args.experiments[k]) \/ C3_GivenMissing(args.experiments[k]))
    => main_error \notin FileNotFound

\* C3: a missing historical file ends the run in file-not-found before any
\* scenario is looked up or loaded; an experiment without a given path whose
\* folder holds no match is skipped with a warning, contributes no series,
\* and the loop goes on to the next experiment; and after the historical
\* series is loaded the run ends in file-not-found exactly when a path given
\* for a requested experiment does not exist or when the loop ends with no
\* scenario loaded at all.
C3_MissingFiles ==
    /\ C3_HistoricalFatal
    /\ \A k \in 1..Len(args.experiments) :
          (C3_NotFound(args.experiments[k]) /\ main_pc \notin {"start", "load_hist"}
             /\ (k < exp_idx \/ main_pc \in {"extremes", "plots", "done"}))
          => /\ C3_Warned(args.experiments[k])
             /\ args.experiments[k] \notin DOMAIN scenario_series
             /\ (main_pc = "failed" =>
                    \/ /\ exp_idx <= Len(args.experiments)
                       /\ C3_GivenMissing(args.experiments[exp_idx])
                    \/ /\ exp_idx > Len(args.experiments)
                       /\ DOMAIN scenario_series = {})
    /\ (hist_series # NoneRec /\ main_pc = "failed") =>
          \/ /\ main_error = "FileNotFoundError: open"
             /\ exp_idx <= Len(args.experiments)
             /\ C3_GivenMissing(args.experiments[exp_idx])
          \/ /\ main_error = "FileNotFoundError: cenario"
             /\ exp_idx > Len(args.experiments)
             /\ \A k \in 1..Len(args.experiments) : C3_NotFound(args.experiments[k])
    /\ main_pc = "done" => DOMAIN scenario_series # {}

\* A run that skipped one experiment with a warning, loaded another and
\* wrote its plots.
C3_Witness ==
    /\ main_pc = "done"
    /\ \E k \in 1..Len(args.experiments) :
          C3_NotFound(args.experiments[k]) /\ C3_Warned(args.experiments[k])
    /\ DOMAIN scenario_series # {}
    /\ plots # {}

\* ------------------------------------------------------ main, claim C4 --
\* The scenarios whose series is the historical series, value for value.
C4_Identical ==
    {e \in DOMAIN scenario_series : scenario_series[e] = hist_series}

C4_Zero(anoms) == \A y \in DOMAIN anoms : anoms[y] = RatOf(0)

\* C4 as the spec states it: the annual anomaly of a scenario identical to
\* the historical series is zero for every year.
C4_AsStated ==
    results # NoneRec =>
        \A e \in C4_Identical : C4_Zero(results.annual_anoms[e])

\* C4: for a scenario identical to the historical series the anomaly of a
\* year is the annual value of that year less the mean of the annual values
\* of all years, so the anomalies of the years sum to zero, and they are
\* zero for every year exactly when the annual values of all years are equal.
C4_AnnualAnomaly ==
    results # NoneRec =>
        \A e \in C4_Identical :
            LET anoms == results.annual_anoms[e]
                annual == results.scenario_annual[e]
            IN /\ DOMAIN anoms = Years(hist_series)
               /\ \A y \in DOMAIN anoms :
                     RatAdd(anoms[y], results.annual_means["historical"]) = annual[y]
               /\ SumOver(anoms, DOMAIN anoms) = RatOf(0)
               /\ C4_Zero(anoms) <=> \A y, z \in DOMAIN annual : annual[y] = annual[z]

\* A scenario identical to a historical series whose years differ, with its
\* anomalies computed and not zero.
C4_Witness ==
    /\ results # NoneRec
    /\ \E e \in C4_Identical :
          /\ \E y, z \in Years(hist_series) : y # z
          /\ ~ C4_Zero(results.annual_anoms[e])

\* ------------------------------------------------------ main, claim C9 --
\* A series has an annual maximum, finite, for at least MinValues years.
C9_LongEnough(series) == Cardinality(Years(series)) >= MinValues

\* C9: when the variable is a wind-speed variable and the historical
\* series and every loaded scenario have at least five finite annual maxima,
\* a finished run holds return levels for the historical series and for
\* every scenario, one per requested period, and has written the plot of
\* the return levels.
C9_AsStated ==
    (/\ main_pc = "done"
     /\ args.variable \in WIND_SPEED_NAMES
     /\ C9_LongEnough(hist_series)
     /\ \A e \in DOMAIN scenario_series : C9_LongEnough(scenario_series[e]))
    => /\ DOMAIN return_levels = {"historical"} \cup DOMAIN scenario_series
       /\ \A n \in DOMAIN return_levels :
             DOMAIN return_levels[n] = SeqToSet(args.return_periods)
       /\ "niveis_retorno" \in plots

\* =========================================================================
\*                            the specifications
\* =========================================================================
ApiIdle ==
    /\ api_args = None /\ api_pc = "idle" /\ e_idx = 0 /\ v_idx = 0
    /\ target_dir = None /\ dirs = {} /\ written = {} /\ calls = <<>>
    /\ outcomes = <<>> /\ printed = <<>> /\ api_error = None

FFIdle == ff_fs = None /\ ff_call = NoneRec /\ ff_result = NoneRec

LdIdle ==
    ld_ds = None /\ ld_variable = None /\ ld_keep_attrs = FALSE /\ ld_result = NoneRec

RlIdle ==
    /\ rl_data = <<>> /\ rl_periods = <<>> /\ rl_scipy = FALSE
    /\ rl_fit = "not called" /\ rl_result = NoneRec

MainIdle ==
    /\ args = NoneRec
    /\ env = NoneRec
    /\ main_pc = "idle"
    /\ exp_idx = 0
    /\ hist_path = NoneRec
    /\ hist_series = NoneRec
    /\ scenario_series = NoneRec
    /\ results = NoneRec
    /\ return_levels = NoneRec
    /\ plots = {}
    /\ main_log = <<>>
    /\ main_error = None

OdIdle ==
    /\ od_path = NoneRec /\ od_pc = "idle" /\ od_tempdirs = {}
    /\ od_open = {} /\ od_log = <<>> /\ od_error = None

\* The retrieval tool.
RetrievalInit == MainIdle /\ FFIdle /\ LdIdle /\ RlIdle /\ OdIdle /\ ApiInit
SpecAPI == RetrievalInit /\ [][ApiNext]_vars

\* find_file applied to a folder.
FindFileInit == MainIdle /\ ApiIdle /\ LdIdle /\ RlIdle /\ OdIdle /\ FFInit
FindFileNext == CallFindFile
SpecFindFile == FindFileInit /\ [][FindFileNext]_vars

\* load_series applied to a dataset.
LoadSeriesInit == MainIdle /\ ApiIdle /\ FFIdle /\ RlIdle /\ OdIdle /\ LdInit
LoadSeriesNext == LoadSeries
SpecLoadSeries == LoadSeriesInit /\ [][LoadSeriesNext]_vars

\* compute_return_levels applied to a series and a list of periods.
ReturnLevelsInit == MainIdle /\ ApiIdle /\ FFIdle /\ LdIdle /\ OdIdle /\ RlInit
ReturnLevelsNext == ReturnLevels \/ ReturnLevelsFitRaises
SpecReturnLevels == ReturnLevelsInit /\ [][ReturnLevelsNext]_vars

\* open_dataset_maybe_zip around a body that completes or raises.
OpenDatasetInit == MainIdle /\ ApiIdle /\ FFIdle /\ LdIdle /\ RlIdle /\ OdInit
OpenDatasetNext == OdEnter \/ OdBodyReturns \/ OdBodyRaises
SpecOpenDataset == OpenDatasetInit /\ [][OpenDatasetNext]_vars

\* The analysis tool from its command line to its plots.
AnalysisInit == ApiIdle /\ FFIdle /\ LdIdle /\ RlIdle /\ OdIdle /\ MainInit
SpecMain == AnalysisInit /\ [][MainNext]_vars

=============================================================================
